---------------------------- MODULE Spec2Model ----------------------------
(***************************************************************************)
(* The protocol editor page of lifekaizen/flow                             *)
(* (web/src/pages/ProtocolEditorPage.tsx): the rich-text codec, the local  *)
(* edit overlay over the cached protocol record, the block list with its   *)
(* drag-reorder hover handler, and the save (upsert) flow.                 *)
(*                                                                         *)
(* Representation.                                                         *)
(*   - A JavaScript string that the code splits or joins (a description)   *)
(*     is a sequence of characters, each a one-character TLA+ string; the  *)
(*     empty string is << >>.  NL is the line break.                       *)
(*   - A string that is only stored and tested for truthiness (a name, a   *)
(*     block's text) is a TLA+ string; "" is the empty, falsy string.      *)
(*   - A nullable or optional value (string | null, id?: number) is a      *)
(*     sequence of length at most one: None is null/undefined/NaN,         *)
(*     Some(v) is the value v.                                             *)
(*   - A Slate node is a record: a leaf [text |-> t] or an element         *)
(*     [children |-> <<...>>].                                             *)
(***************************************************************************)
EXTENDS Integers, Sequences, FiniteSets, TLC

None == << >>
Some(v) == << v >>
IsSome(o) == o # None
Get(o) == o[1]

-----------------------------------------------------------------------------
(* Bounds of the model *)

\* longest leaf text of a document handed to the codec
MaxTextLen == 1
\* most leaves, over all its paragraphs, of a document handed to the codec
MaxLeaves == 3
\* longest string handed to the codec
MaxStringLen == 4
\* longest block list handed to moveBlock
MaxMoveLen == 3

NL == "\n"
Char == {"a", NL}

\* the sequences over S of length at most n
SeqUpTo(S, n) == UNION {[1..k -> S] : k \in 0..n}

Text == SeqUpTo(Char, MaxTextLen)
String == SeqUpTo(Char, MaxStringLen)

RECURSIVE DocumentsOf(_)
\* the documents of exactly n leaves, every paragraph holding at least one:
\* the n-th leaf opens a new paragraph or extends the last one
DocumentsOf(n) ==
    IF n = 0 THEN { << >> }
    ELSE LET shorter == DocumentsOf(n - 1)
         IN  { Append(d, [children |-> << [text |-> t] >>]) :
                   d \in shorter, t \in Text }
             \cup
             { [d EXCEPT ![Len(d)].children = Append(@, [text |-> t])] :
                   d \in shorter \ { << >> }, t \in Text }

Document == UNION { DocumentsOf(n) : n \in 0..MaxLeaves }

-----------------------------------------------------------------------------
(* Rich-text codec *)

RECURSIVE Flatten(_)
\* the concatenation of a sequence of strings
Flatten(strs) ==
    IF strs = << >> THEN << >> ELSE Head(strs) \o Flatten(Tail(strs))

RECURSIVE NodeString(_)
\* slate's Node.string: a leaf's text, or the concatenated strings of an
\* element's children
NodeString(n) ==
    IF "text" \in DOMAIN n
    THEN n.text
    ELSE Flatten([i \in DOMAIN n.children |-> NodeString(n.children[i])])

\* a join that leaves the separator out
Join_NoSeparator(strs, sep) == Flatten(strs)

RECURSIVE Join(_, _)
\* Array.prototype.join: the empty array joins to the empty string
Join(strs, sep) ==
    IF strs = << >> THEN << >>
    ELSE IF Len(strs) = 1 THEN Head(strs)
    ELSE Head(strs) \o << sep >> \o Join(Tail(strs), sep)

RECURSIVE SplitFrom(_, _, _)
\* the pieces of str between separators, cur being the piece read so far
SplitFrom(str, sep, cur) ==
    IF str = << >> THEN << cur >>
    ELSE IF Head(str) = sep
         THEN << cur >> \o SplitFrom(Tail(str), sep, << >>)
         ELSE SplitFrom(Tail(str), sep, Append(cur, Head(str)))

\* a split that gives no piece for the empty string
Split_EmptyToNone(str, sep) ==
    IF str = << >> THEN << >> ELSE SplitFrom(str, sep, << >>)

\* String.prototype.split with a one-character separator: always at least
\* one piece, "" splits to [""]
Split(str, sep) == SplitFrom(str, sep, << >>)

serializeSlate(value) ==
    Join([i \in DOMAIN value |-> NodeString(value[i])], NL)

\* a deserialization that gives no paragraph for an empty line
deserializeSlate_SkipsEmptyLines(str) ==
    LET lines == SelectSeq(Split(str, NL), LAMBDA line : line # << >>)
    IN  [i \in DOMAIN lines |-> [children |-> << [text |-> lines[i]] >>]]

deserializeSlate(str) ==
    LET lines == Split(str, NL)
    IN  [i \in DOMAIN lines |-> [children |-> << [text |-> lines[i]] >>]]


-----------------------------------------------------------------------------
(* Protocol records, blocks and the record cache *)

\* largest protocol id of the model: the ids are 0..MaxId
MaxId == 1
\* most blocks a protocol holds (no operation of the page removes a block)
MaxBlocks == 2
\* most saves started on one page instance
MaxSaves == 2
\* height in pixels of a block item's bounding box
ItemHeight == 2
\* most user events (edits, drag events, clicks on Save) on one page instance
MaxEvents == 4

Ids == 0..MaxId

\* JavaScript truthiness of an optional number: undefined, NaN and 0 are falsy
TruthyId(o) == IsSome(o) /\ Get(o) # 0

\* the entries of the "Add a new section" menu
BlockTypes ==
    {"text-question", "options-question", "plate-sampler",
     "plate-add-reagent", "plate-sequencer"}

\* the names the title field is edited to
NameEdits == {"", "B"}
\* the documents the description editor is edited to
DescriptionEdits ==
    { << [children |-> << [text |-> << "a" >>] >>] >>,
      << [children |-> << [text |-> << "a" >>], [text |-> << "a" >>] >>] >> }

\* a block as the type-specific editor hands it back: same identity token,
\* same type, its type-specific field edited
EditedBlock(b) == [b EXCEPT !.name = "edited"]

\* the block a menu entry appends
NewBlock(token, type) == [id |-> token, type |-> type, name |-> ""]

\* the records the cache may hold for protocol i when the page mounts
RemoteProtocols(i) ==
    { [id |-> Some(i), name |-> "A", description |-> d, blocks |-> bs] :
        d \in { << >>, << "a" >> },
        bs \in { << >>, << NewBlock(1, "text-question") >> } }

VARIABLES
    routeId,        \* parseInt(id) of the route parameter, None when NaN
    protocolCache,  \* protocolsState.protocolCache: Ids -> None or Some(record)
    name,           \* overlay: None or Some(string)
    description,    \* overlay: None or Some(document)
    blocks,         \* overlay: None or Some(sequence of blocks)
    formSaving,
    formSavedTime,  \* None or Some(time), the time being the number of
                    \* protocolUpsert calls finished when moment() is read
    upserts,        \* the protocolUpsert calls that have not finished:
                    \* [seq, stage, protocol, method, path, edits], edits
                    \* being the overlay when Save was clicked
    saveLog,        \* the finished protocolUpsert calls, in the order they
                    \* finished: [seq, outcome, response]
    uuidCount,      \* number of identity tokens generated or loaded so far
    events,         \* number of user events handled so far
    item,           \* the drag in progress: None or Some([index |-> i])
    dragged,        \* None, or Some(token) of the block the drag in progress
                    \* began on
    hoverRun,       \* the run of identical hover events that is in progress
    call            \* an application of a function of the page to an input

pageVars ==
    << routeId, protocolCache, name, description, blocks, formSaving,
       formSavedTime, upserts, saveLog, uuidCount, events, item, dragged,
       hoverRun >>
vars == << pageVars, call >>

\* protocolQuery(parseInt(id)): the cached record of the route's id
protocol ==
    IF routeId = None THEN None ELSE protocolCache[Get(routeId)]

currentName ==
    IF name # None /\ Get(name) # "" THEN Get(name)
    ELSE IF protocol # None /\ Get(protocol).name # "" THEN Get(protocol).name
    ELSE ""

currentDescription ==
    IF description # None THEN Get(description)
    ELSE IF protocol # None /\ Get(protocol).description # << >>
         THEN deserializeSlate(Get(protocol).description)
    ELSE << [text |-> << >>] >>

currentBlocks ==
    IF blocks # None THEN Get(blocks)
    ELSE IF protocol # None THEN Get(protocol).blocks
    ELSE << >>


overlayVars == << name, description, blocks >>
saveVars == << formSaving, formSavedTime, upserts, saveLog >>
dragVars == << item, dragged, hoverRun >>

\* a user event is handled
UserEvent ==
    /\ events < MaxEvents
    /\ events' = events + 1

\* number of protocolUpsert calls so far
started == Len(saveLog) + Cardinality(upserts)

-----------------------------------------------------------------------------
(* Edits of the overlay *)

\* onChange of the title field
setName(v) ==
    /\ UserEvent
    /\ name' = Some(v)
    /\ UNCHANGED << routeId, protocolCache, description, blocks, saveVars,
                    uuidCount, dragVars, call >>

\* onChange of the Slate editor, which also fires with the value unchanged
setDescription(d) ==
    /\ UserEvent
    /\ description' = Some(d)
    /\ UNCHANGED << routeId, protocolCache, name, blocks, saveVars,
                    uuidCount, dragVars, call >>

\* a menu entry that takes the new block's position as its token
addBlock_PositionAsToken(type) ==
    /\ UserEvent
    /\ Len(currentBlocks) < MaxBlocks
    /\ blocks' = Some(Append(currentBlocks,
                             NewBlock(Len(currentBlocks), type)))
    /\ uuidCount' = uuidCount + 1
    /\ UNCHANGED << routeId, protocolCache, name, description, saveVars,
                    dragVars, call >>

\* onClick of an entry of the "Add a new section" menu; uuid.v4() is a token
\* never handed out before
addBlock(type) ==
    /\ UserEvent
    /\ Len(currentBlocks) < MaxBlocks
    /\ blocks' = Some(Append(currentBlocks, NewBlock(uuidCount + 1, type)))
    /\ uuidCount' = uuidCount + 1
    /\ UNCHANGED << routeId, protocolCache, name, description, saveVars,
                    dragVars, call >>

\* a replacement that adds the block at the end when no token matches
ReplaceById_AddsMissing(bs, block) ==
    IF \E i \in DOMAIN bs : bs[i].id = block.id
    THEN [i \in DOMAIN bs |-> IF bs[i].id = block.id THEN block ELSE bs[i]]
    ELSE Append(bs, block)

\* currentBlocks.map(b => (b.id === block.id) ? block : b)
ReplaceById(bs, block) ==
    [i \in DOMAIN bs |-> IF bs[i].id = block.id THEN block ELSE bs[i]]

\* the setBlock callback of a block editor; block is None or Some(block)
updateBlock(block) ==
    /\ UserEvent
    /\ IF block # None
       THEN blocks' = Some(ReplaceById(currentBlocks, Get(block)))
       ELSE blocks' = blocks
    /\ UNCHANGED << routeId, protocolCache, name, description, saveVars,
                    uuidCount, dragVars, call >>

\* Array.prototype.splice(index, 1) and splice(index, 0, x), indices from 0
SpliceOut(bs, index) ==
    SubSeq(bs, 1, index) \o SubSeq(bs, index + 2, Len(bs))
SpliceIn(bs, index, x) ==
    SubSeq(bs, 1, index) \o << x >> \o SubSeq(bs, index + 1, Len(bs))

\* a move that reads hoverIndex as a position of the list before the removal
Move_IndexBeforeRemoval(bs, dragIndex, hoverIndex) ==
    LET dragBlock == bs[dragIndex + 1]
        index == IF dragIndex < hoverIndex THEN hoverIndex - 1 ELSE hoverIndex
    IN  SpliceIn(SpliceOut(bs, dragIndex), index, dragBlock)

\* a move that exchanges the blocks at the two positions
Move_Exchange(bs, dragIndex, hoverIndex) ==
    [i \in DOMAIN bs |->
        IF i = dragIndex + 1 THEN bs[hoverIndex + 1]
        ELSE IF i = hoverIndex + 1 THEN bs[dragIndex + 1]
        ELSE bs[i]]

\* a move that inserts the dragged block without removing it first
Move_NoRemoval(bs, dragIndex, hoverIndex) ==
    SpliceIn(bs, hoverIndex, bs[dragIndex + 1])

\* the sequence moveBlock hands to setBlocks; both indices are positions of
\* bs, 0 <= index < Len(bs)
Move(bs, dragIndex, hoverIndex) ==
    LET dragBlock == bs[dragIndex + 1]
    IN  SpliceIn(SpliceOut(bs, dragIndex), hoverIndex, dragBlock)

moveBlock(dragIndex, hoverIndex) ==
    blocks' = Some(Move(currentBlocks, dragIndex, hoverIndex))


-----------------------------------------------------------------------------
(* Drag and drop of a block item *)

\* a hover that also returns early with the pointer exactly at the midpoint
HoverMoves_NotAtMidpoint(dragIndex, index, hoverClientY) ==
    /\ dragIndex # index
    /\ ~ (dragIndex < index /\ 2 * hoverClientY <= ItemHeight)
    /\ ~ (dragIndex > index /\ 2 * hoverClientY >= ItemHeight)

\* whether hover, for a drag of recorded index dragIndex over the item at
\* position index with the pointer hoverClientY below the item's top edge,
\* gets past its three early returns (hoverMiddleY is ItemHeight / 2)
HoverMoves(dragIndex, index, hoverClientY) ==
    /\ dragIndex # index
    /\ ~ (dragIndex < index /\ 2 * hoverClientY < ItemHeight)
    /\ ~ (dragIndex > index /\ 2 * hoverClientY > ItemHeight)

\* useDrag's item: the drag of the block item at position index begins
beginDrag(index) ==
    /\ UserEvent
    /\ item = None
    /\ index \in 0..(Len(currentBlocks) - 1)
    /\ item' = Some([index |-> index])
    /\ dragged' = Some(currentBlocks[index + 1].id)
    /\ hoverRun' = None
    /\ UNCHANGED << routeId, protocolCache, overlayVars, saveVars, uuidCount,
                    call >>

\* a hover that moves the block but leaves the recorded index as it was
hover_KeepsIndex(index, hoverClientY) ==
    /\ UserEvent
    /\ item # None
    /\ index \in 0..(Len(currentBlocks) - 1)
    /\ LET dragIndex == Get(item).index
           moves == HoverMoves(dragIndex, index, hoverClientY)
       IN  /\ IF moves
              THEN moveBlock(dragIndex, index)
              ELSE UNCHANGED blocks
           /\ hoverRun' = Some([token |-> currentBlocks[index + 1].id,
                                y |-> hoverClientY, moves |-> 0])
    /\ UNCHANGED << routeId, protocolCache, name, description, saveVars,
                    uuidCount, item, dragged, call >>

\* useDrop's hover of the block item at position index.  hoverRun counts
\* (up to 2) the moves of the hover events in a row that have the same
\* hovered block and the same pointer offset.
hover(index, hoverClientY) ==
    /\ UserEvent
    /\ item # None
    /\ index \in 0..(Len(currentBlocks) - 1)
    /\ LET dragIndex == Get(item).index
           moves == HoverMoves(dragIndex, index, hoverClientY)
           token == currentBlocks[index + 1].id
           before == IF /\ hoverRun # None
                        /\ Get(hoverRun).token = token
                        /\ Get(hoverRun).y = hoverClientY
                     THEN Get(hoverRun).moves
                     ELSE 0
           after == IF ~ moves THEN before
                    ELSE IF before < 2 THEN before + 1 ELSE 2
       IN  /\ IF moves
              THEN /\ moveBlock(dragIndex, index)
                   /\ item' = Some([index |-> index])
              ELSE UNCHANGED << blocks, item >>
           /\ hoverRun' =
                  Some([token |-> token, y |-> hoverClientY, moves |-> after])
    /\ UNCHANGED << routeId, protocolCache, name, description, saveVars,
                    uuidCount, dragged, call >>

\* a release that also sends the reordered protocol to the server
endDrag_Saves ==
    /\ UserEvent
    /\ item # None
    /\ item' = None
    /\ dragged' = None
    /\ hoverRun' = None
    /\ formSaving' = TRUE
    /\ upserts' = upserts \cup
           { [seq |-> started + 1, stage |-> "auth",
              protocol |-> [id |-> routeId, name |-> currentName,
                            description |-> serializeSlate(currentDescription),
                            blocks |-> currentBlocks],
              method |-> None, path |-> None,
              edits |-> << name, description, blocks >>] }
    /\ UNCHANGED << routeId, protocolCache, overlayVars, formSavedTime,
                    saveLog, uuidCount, call >>

\* the pointer is released
endDrag ==
    /\ UserEvent
    /\ item # None
    /\ item' = None
    /\ dragged' = None
    /\ hoverRun' = None
    /\ UNCHANGED << routeId, protocolCache, overlayVars, saveVars, uuidCount,
                    call >>

-----------------------------------------------------------------------------
(* Save *)

\* the record the Save button hands to protocolUpsert
Submitted ==
    [id |-> routeId,
     name |-> currentName,
     description |-> serializeSlate(currentDescription),
     blocks |-> currentBlocks]

Method(p) == IF TruthyId(p.id) THEN "PUT" ELSE "POST"
Path(p) == IF TruthyId(p.id) THEN << "protocol", Get(p.id) >> ELSE << "protocol" >>

\* the records apiFetch may resolve with: the server's copy of the record
\* sent, under the id the server gives it or under none
Responses(p) == { [p EXCEPT !.id = sid] : sid \in {None} \cup {Some(i) : i \in Ids} }

\* a Save button that is never disabled
SaveEnabled_Always == TRUE

\* whether the Save button takes a click
SaveEnabled == ~ formSaving

\* onClick of the Save button: protocolUpsert runs to its first await
saveClick ==
    /\ UserEvent
    /\ SaveEnabled
    /\ started < MaxSaves
    /\ formSaving' = TRUE
    /\ upserts' = upserts \cup
           { [seq |-> started + 1, stage |-> "auth", protocol |-> Submitted,
              method |-> None, path |-> None,
              edits |-> << name, description, blocks >>] }
    /\ UNCHANGED << routeId, protocolCache, overlayVars, formSavedTime,
                    saveLog, uuidCount, dragVars, call >>

\* the finally block of protocolUpsert call u, which ends in outcome after
\* apiFetch gave response (None, or Some(record) when it resolved)
Finally(u, outcome, response) ==
    /\ formSaving' = FALSE
    /\ saveLog' = Append(saveLog, [seq |-> u.seq, outcome |-> outcome,
                                   response |-> response])
    /\ formSavedTime' = Some(Len(saveLog) + 1)
    /\ upserts' = upserts \ {u}

\* snapshot.getPromise(auth0State) resolves: apiFetch is called
authResolved(u) ==
    /\ u \in upserts /\ u.stage = "auth"
    /\ upserts' = (upserts \ {u}) \cup
           { [u EXCEPT !.stage = "fetch",
                       !.method = Some(Method(u.protocol)),
                       !.path = Some(Path(u.protocol))] }
    /\ UNCHANGED << events, routeId, protocolCache, overlayVars, formSaving,
                    formSavedTime, saveLog, uuidCount, dragVars, call >>

\* snapshot.getPromise(auth0State) rejects
authRejected(u) ==
    /\ u \in upserts /\ u.stage = "auth"
    /\ Finally(u, "rejected", None)
    /\ UNCHANGED << events, routeId, protocolCache, overlayVars, uuidCount,
                    dragVars, call >>

\* the updater handed to set(protocolsState, ...): whether it writes the
\* cache rather than throws
UpdaterWrites(created) == TruthyId(created.id)

\* a completion that writes the cache before it looks at the id, under the
\* returned id or else under the submitted one
fetchResolved_WritesUnchecked(u, created) ==
    /\ u \in upserts /\ u.stage = "fetch"
    /\ LET key == IF IsSome(created.id) THEN created.id ELSE u.protocol.id
       IN  protocolCache' =
               IF IsSome(key)
               THEN [protocolCache EXCEPT ![Get(key)] = Some(created)]
               ELSE protocolCache
    /\ Finally(u, IF UpdaterWrites(created) THEN "written" ELSE "threw",
               Some(created))
    /\ UNCHANGED << events, routeId, overlayVars, uuidCount, dragVars, call >>

\* a completion that, once the record is in the cache, drops the local edits
fetchResolved_ResetsOverlay(u, created) ==
    /\ u \in upserts /\ u.stage = "fetch"
    /\ IF UpdaterWrites(created)
       THEN /\ protocolCache' =
                   [protocolCache EXCEPT ![Get(created.id)] = Some(created)]
            /\ name' = None /\ description' = None /\ blocks' = None
            /\ Finally(u, "written", Some(created))
       ELSE /\ protocolCache' = protocolCache
            /\ UNCHANGED overlayVars
            /\ Finally(u, "threw", Some(created))
    /\ UNCHANGED << events, routeId, uuidCount, dragVars, call >>

\* apiFetch resolves with created
fetchResolved(u, created) ==
    /\ u \in upserts /\ u.stage = "fetch"
    /\ IF UpdaterWrites(created)
       THEN /\ protocolCache' =
                   [protocolCache EXCEPT ![Get(created.id)] = Some(created)]
            /\ Finally(u, "written", Some(created))
       ELSE /\ protocolCache' = protocolCache
            /\ Finally(u, "threw", Some(created))
    /\ UNCHANGED << events, routeId, overlayVars, uuidCount, dragVars, call >>

\* a rejection that leaves protocolUpsert without running its finally block
fetchRejected_NoCleanup(u) ==
    /\ u \in upserts /\ u.stage = "fetch"
    /\ upserts' = upserts \ {u}
    /\ UNCHANGED << events, routeId, protocolCache, overlayVars, formSaving,
                    formSavedTime, saveLog, uuidCount, dragVars, call >>

\* apiFetch rejects
fetchRejected(u) ==
    /\ u \in upserts /\ u.stage = "fetch"
    /\ Finally(u, "rejected", None)
    /\ UNCHANGED << events, routeId, protocolCache, overlayVars, uuidCount,
                    dragVars, call >>

-----------------------------------------------------------------------------
(* The page *)

NoCall == [fn |-> "none"]

\* the page mounts on a route; the cache holds the route's record or not
Init ==
    /\ routeId \in {None} \cup {Some(i) : i \in Ids}
    /\ protocolCache \in
           { [i \in Ids |-> IF Some(i) = routeId THEN r ELSE None] :
               r \in {None} \cup
                     (IF routeId = None THEN {}
                      ELSE {Some(p) : p \in RemoteProtocols(Get(routeId))}) }
    /\ name = None
    /\ description = None
    /\ blocks = None
    /\ formSaving = FALSE
    /\ formSavedTime = None
    /\ upserts = {}
    /\ saveLog = << >>
    /\ uuidCount = 1
    /\ events = 0
    /\ item = None
    /\ dragged = None
    /\ hoverRun = None
    /\ call = NoCall

\* a block the page never held, handed back by an editor opened earlier
StrayBlock == NewBlock(0, "text-question")

Next ==
    \/ \E v \in NameEdits : setName(v)
    \/ \E d \in DescriptionEdits \cup {currentDescription} : setDescription(d)
    \/ \E type \in BlockTypes : addBlock(type)
    \/ \E i \in DOMAIN currentBlocks :
           updateBlock(Some(EditedBlock(currentBlocks[i])))
    \/ updateBlock(Some(StrayBlock))
    \/ updateBlock(None)
    \/ \E index \in 0..(MaxBlocks - 1) : beginDrag(index)
    \/ \E index \in 0..(MaxBlocks - 1), y \in 0..ItemHeight : hover(index, y)
    \/ endDrag
    \/ saveClick
    \/ \E u \in upserts : authResolved(u)
    \/ \E u \in upserts : authRejected(u)
    \/ \E u \in upserts : \E created \in Responses(u.protocol) :
           fetchResolved(u, created)
    \/ \E u \in upserts : fetchRejected(u)

Spec == Init /\ [][Next]_vars


\* the liveness the scheduling gives: a promise that is awaited settles
Fairness ==
    /\ WF_vars(\E u \in upserts : authResolved(u) \/ authRejected(u))
    /\ WF_vars(\E u \in upserts :
                   \/ fetchRejected(u)
                   \/ \E created \in Responses(u.protocol) :
                          fetchResolved(u, created))

FairSpec == Spec /\ Fairness

-----------------------------------------------------------------------------
(* The codec functions applied to bounded inputs *)

\* the page as it mounts on the route without an id
Mounted ==
    /\ routeId = None
    /\ protocolCache = [i \in Ids |-> None]
    /\ name = None
    /\ description = None
    /\ blocks = None
    /\ formSaving = FALSE
    /\ formSavedTime = None
    /\ upserts = {}
    /\ saveLog = << >>
    /\ uuidCount = 1
    /\ events = 0
    /\ item = None
    /\ dragged = None
    /\ hoverRun = None

\* call.fn = "document": doc -> str = serializeSlate(doc)
\*                           -> doc2 = deserializeSlate(str)
\* call.fn = "string":   str -> doc = deserializeSlate(str)
\*                           -> str2 = serializeSlate(doc)
CodecInit ==
    /\ Mounted
    /\ call \in
         { [fn |-> "document", step |-> 0, doc |-> d, str |-> << >>,
            doc2 |-> << >>, str2 |-> << >>] : d \in Document }
         \cup
         { [fn |-> "string", step |-> 0, doc |-> << >>, str |-> t,
            doc2 |-> << >>, str2 |-> << >>] : t \in String }

callSerialize ==
    /\ \/ /\ call.fn = "document" /\ call.step = 0
          /\ call' = [call EXCEPT !.str = serializeSlate(call.doc), !.step = 1]
       \/ /\ call.fn = "string" /\ call.step = 1
          /\ call' = [call EXCEPT !.str2 = serializeSlate(call.doc), !.step = 2]
    /\ UNCHANGED pageVars

callDeserialize ==
    /\ \/ /\ call.fn = "document" /\ call.step = 1
          /\ call' = [call EXCEPT !.doc2 = deserializeSlate(call.str), !.step = 2]
       \/ /\ call.fn = "string" /\ call.step = 0
          /\ call' = [call EXCEPT !.doc = deserializeSlate(call.str), !.step = 1]
    /\ UNCHANGED pageVars

CodecNext == callSerialize \/ callDeserialize

CodecSpec == CodecInit /\ [][CodecNext]_vars

-----------------------------------------------------------------------------
(* moveBlock applied to bounded inputs *)

\* the block lists of a cached record; a list from the server may repeat a
\* token
MoveLists ==
    { [i \in DOMAIN ts |-> NewBlock(ts[i], "text-question")] :
        ts \in SeqUpTo(1..MaxMoveLen, MaxMoveLen) }

\* the page mounts on protocol 1, whose cached record holds any block list
MoveInit ==
    /\ routeId = Some(1)
    /\ protocolCache \in
         { [i \in Ids |->
               IF i = 1
               THEN Some([id |-> Some(1), name |-> "A", description |-> << >>,
                          blocks |-> bs])
               ELSE None] : bs \in MoveLists }
    /\ name = None
    /\ description = None
    /\ blocks = None
    /\ formSaving = FALSE
    /\ formSavedTime = None
    /\ upserts = {}
    /\ saveLog = << >>
    /\ uuidCount = MaxMoveLen
    /\ events = 0
    /\ item = None
    /\ dragged = None
    /\ hoverRun = None
    /\ call = [fn |-> "moveBlock", step |-> 0]

\* one call of moveBlock with indices that are positions of the list
callMoveBlock(fromIndex, toIndex) ==
    /\ call.fn = "moveBlock" /\ call.step = 0
    /\ fromIndex \in 0..(Len(currentBlocks) - 1)
    /\ toIndex \in 0..(Len(currentBlocks) - 1)
    /\ moveBlock(fromIndex, toIndex)
    /\ call' = [fn |-> "moveBlock", step |-> 1, before |-> currentBlocks,
                fromIndex |-> fromIndex, toIndex |-> toIndex]
    /\ UNCHANGED << routeId, protocolCache, name, description, saveVars,
                    uuidCount, events, dragVars >>

MoveNext ==
    \E fromIndex \in 0..(MaxMoveLen - 1), toIndex \in 0..(MaxMoveLen - 1) :
        callMoveBlock(fromIndex, toIndex)

MoveSpec == MoveInit /\ [][MoveNext]_vars


-----------------------------------------------------------------------------
(* The block list edited and dragged, without saves *)

\* the block lists of a cached record whose tokens differ
DragLists ==
    { [i \in 1..n |-> NewBlock(i, "text-question")] : n \in 0..MaxMoveLen }

\* the page mounts on protocol 1, whose cached record holds such a list
DragInit ==
    /\ routeId = Some(1)
    /\ protocolCache \in
         { [i \in Ids |->
               IF i = 1
               THEN Some([id |-> Some(1), name |-> "A", description |-> << >>,
                          blocks |-> bs])
               ELSE None] : bs \in DragLists }
    /\ name = None
    /\ description = None
    /\ blocks = None
    /\ formSaving = FALSE
    /\ formSavedTime = None
    /\ upserts = {}
    /\ saveLog = << >>
    /\ uuidCount = MaxMoveLen
    /\ events = 0
    /\ item = None
    /\ dragged = None
    /\ hoverRun = None
    /\ call = NoCall

DragNext ==
    \/ \E type \in BlockTypes : addBlock(type)
    \/ \E i \in DOMAIN currentBlocks :
           updateBlock(Some(EditedBlock(currentBlocks[i])))
    \/ updateBlock(Some(StrayBlock))
    \/ \E index \in 0..(Len(currentBlocks) - 1) : beginDrag(index)
    \/ \E index \in 0..(Len(currentBlocks) - 1), y \in 0..ItemHeight :
           hover(index, y)
    \/ endDrag

DragSpec == DragInit /\ [][DragNext]_vars

-----------------------------------------------------------------------------
(* A cached protocol of any description, edited and saved *)

\* the page mounts on protocol 1, whose cached record holds any description
\* string
ReloadInit ==
    /\ routeId = Some(1)
    /\ protocolCache \in
         { [i \in Ids |->
               IF i = 1
               THEN Some([id |-> Some(1), name |-> n, description |-> d,
                          blocks |-> bs])
               ELSE None] :
             n \in {"", "A"}, d \in String,
             bs \in { << >>, << NewBlock(1, "text-question") >> } }
    /\ name = None
    /\ description = None
    /\ blocks = None
    /\ formSaving = FALSE
    /\ formSavedTime = None
    /\ upserts = {}
    /\ saveLog = << >>
    /\ uuidCount = 1
    /\ events = 0
    /\ item = None
    /\ dragged = None
    /\ hoverRun = None
    /\ call = NoCall

ReloadNext ==
    \/ \E v \in NameEdits : setName(v)
    \/ \E d \in DescriptionEdits : setDescription(d)
    \/ saveClick
    \/ \E u \in upserts : authResolved(u)
    \/ \E u \in upserts : authRejected(u)
    \/ \E u \in upserts : \E created \in Responses(u.protocol) :
           fetchResolved(u, created)
    \/ \E u \in upserts : fetchRejected(u)

ReloadSpec == ReloadInit /\ [][ReloadNext]_vars

-----------------------------------------------------------------------------
(* Properties *)

Last(q) == q[Len(q)]

\* C1: for each of name, description and blocks the displayed value is the
\* overlay value whenever the overlay value is non-null, otherwise the value
\* of the cached record, otherwise the empty default (an empty cached name
\* or description counting as none)
C1_OverlayPrecedence ==
    /\ currentName =
           IF name # None THEN Get(name)
           ELSE IF protocol # None THEN Get(protocol).name
           ELSE ""
    /\ currentDescription =
           IF description # None THEN Get(description)
           ELSE IF protocol # None /\ Get(protocol).description # << >>
                THEN deserializeSlate(Get(protocol).description)
           ELSE << [text |-> << >>] >>
    /\ currentBlocks =
           IF blocks # None THEN Get(blocks)
           ELSE IF protocol # None THEN Get(protocol).blocks
           ELSE << >>

\* number of blocks of bs that carry token t
TokenCount(bs, t) == Cardinality({i \in DOMAIN bs : bs[i].id = t})
Tokens(bs) == {bs[i].id : i \in DOMAIN bs}

\* C2: moveBlock(fromIndex, toIndex) with both indices in [0, N) yields a
\* list of the same length N with the same multiset of identity tokens, in
\* which the block that was at fromIndex is at toIndex
C2_MovePreserves ==
    (call.fn = "moveBlock" /\ call.step = 1) =>
        /\ Len(currentBlocks) = Len(call.before)
        /\ \A t \in Tokens(call.before) \cup Tokens(currentBlocks) :
               TokenCount(currentBlocks, t) = TokenCount(call.before, t)
        /\ currentBlocks[call.toIndex + 1] = call.before[call.fromIndex + 1]

\* a block of three distinct tokens has been moved from the front to the end
C2_Witness ==
    /\ call.fn = "moveBlock" /\ call.step = 1
    /\ Len(call.before) = 3
    /\ Cardinality(Tokens(call.before)) = 3
    /\ call.fromIndex = 0 /\ call.toIndex = 2

\* C3: while a save is in progress saving is true, and every save is
\* followed, once its promises settle, by a state with saving false and a
\* last-saved time, whatever the outcome
C3_SaveSettles ==
    /\ [](upserts # {} => formSaving)
    /\ (formSaving ~> (~ formSaving /\ formSavedTime # None))

\* a save that was rejected and one whose response had no id have both ended
C3_Witness ==
    /\ Len(saveLog) = 2
    /\ saveLog[1].response = None
    /\ saveLog[2].response # None /\ Get(saveLog[2].response).id = None
    /\ ~ formSaving
    /\ formSavedTime = Some(2)

\* C4: when the upsert resolved with a record that carries an id, the cache
\* maps that id to the returned record after the save has completed
C4_CacheHoldsReturnedRecord ==
    saveLog # << >> =>
        LET response == Last(saveLog).response
        IN  (response # None /\ IsSome(Get(response).id)) =>
                protocolCache[Get(Get(response).id)] = response

\* a finished save failed: the upsert rejected, or resolved without an id
FailedSave(e) == e.response = None \/ Get(e.response).id = None

\* C5: a save that fails writes no cache entry, leaves the three overlay
\* fields as they are, and leaves the Save button enabled for another try
C5_FailedSaveKeepsEdits ==
    [][ (Len(saveLog') > Len(saveLog) /\ FailedSave(Last(saveLog'))) =>
            /\ protocolCache' = protocolCache
            /\ name' = name
            /\ description' = description
            /\ blocks' = blocks
            /\ SaveEnabled' ]_vars

\* after a failed save of an edited name, a second save submits the edit
C5_Witness ==
    /\ Len(saveLog) = 1
    /\ FailedSave(saveLog[1])
    /\ name = Some("B")
    /\ \E u \in upserts : u.seq = 2 /\ u.protocol.name = "B"

\* C6: the upsert goes to the create path (POST, "protocol") exactly when
\* the submitted protocol has no id and to the update path (PUT,
\* "protocol/<id>") exactly when it has one, whatever the id
C6_CreateIffNoId ==
    \A u \in upserts :
        u.stage = "fetch" =>
            IF IsSome(u.protocol.id)
            THEN /\ u.method = Some("PUT")
                 /\ u.path = Some(<< "protocol", Get(u.protocol.id) >>)
            ELSE /\ u.method = Some("POST")
                 /\ u.path = Some(<< "protocol" >>)

\* C7: at most one upsert is in flight, the Save button is disabled while
\* saving is true, and the saves finish in the order they were started
C7_OneSaveInFlight ==
    /\ Cardinality(upserts) <= 1
    /\ formSaving => ~ SaveEnabled
    /\ \A i, j \in DOMAIN saveLog : i < j => saveLog[i].seq < saveLog[j].seq

\* two saves have written the cache, one after the other
C7_Witness ==
    /\ Len(saveLog) = 2
    /\ saveLog[1].outcome = "written"
    /\ saveLog[2].outcome = "written"

\* C8: hover events in a row on the same hovered block with the pointer at
\* the same offset move a block at most once
C8_HoverMovesOnce ==
    hoverRun # None => Get(hoverRun).moves <= 1

OneLeafEach(d) == \A i \in DOMAIN d : Len(d[i].children) = 1
NoLineBreak(d) ==
    \A i \in DOMAIN d : \A j \in DOMAIN d[i].children :
        \A k \in DOMAIN d[i].children[j].text : d[i].children[j].text[k] # NL

\* C9 as stated: deserializeSlate(serializeSlate(d)) = d, with as many
\* paragraphs, for every document d whose paragraphs each hold one leaf
C9_RoundTripAnyDocument ==
    (call.fn = "document" /\ call.step = 2 /\ OneLeafEach(call.doc)) =>
        /\ call.doc2 = call.doc
        /\ Len(call.doc2) = Len(call.doc)

\* C9 as amended: deserializeSlate(serializeSlate(d)) = d, with as many
\* paragraphs, for every document d of at least one paragraph whose
\* paragraphs each hold one leaf and whose leaf texts hold no line break
C9_RoundTripLineDocument ==
    (/\ call.fn = "document" /\ call.step = 2
     /\ call.doc # << >>
     /\ OneLeafEach(call.doc)
     /\ NoLineBreak(call.doc)) =>
        /\ call.doc2 = call.doc
        /\ Len(call.doc2) = Len(call.doc)

\* a document of an empty and a non-empty one-leaf paragraph has gone
\* through both functions
C9_Witness ==
    /\ call.fn = "document" /\ call.step = 2
    /\ call.doc = << [children |-> << [text |-> << >>] >>],
                     [children |-> << [text |-> << "a" >>] >>] >>

\* C10: deserializeSlate("") is one paragraph of one leaf with empty text,
\* and serializeSlate of that document is ""
C10_EmptyString ==
    (call.fn = "string" /\ call.str = << >>) =>
        /\ call.step >= 1 =>
               call.doc = << [children |-> << [text |-> << >>] >>] >>
        /\ call.step = 2 => call.str2 = << >>

\* the empty string has gone through both functions
C10_Witness ==
    /\ call.fn = "string" /\ call.str = << >>
    /\ call.step = 2


\* the blocks an editor may hand to updateBlock in the current state
UpdateArguments ==
    {EditedBlock(currentBlocks[i]) : i \in DOMAIN currentBlocks}
        \cup {StrayBlock}

\* C11: updateBlock(updated) leaves a displayed list of the same length in
\* which the elements carrying updated's token are updated and every other
\* element is the one that was there; with no element of that token the
\* displayed list is the same as before
C11_UpdateReplacesInPlace ==
    [][ \A updated \in UpdateArguments :
            updateBlock(Some(updated)) =>
                /\ Len(currentBlocks') = Len(currentBlocks)
                /\ \A i \in DOMAIN currentBlocks :
                       currentBlocks'[i] =
                           IF currentBlocks[i].id = updated.id
                           THEN updated
                           ELSE currentBlocks[i]
                /\ (updated.id \notin Tokens(currentBlocks)) =>
                       currentBlocks' = currentBlocks ]_vars

\* the second of two blocks has been updated, the first is as it was
C11_Witness ==
    /\ Len(currentBlocks) = 2
    /\ currentBlocks[1].name = ""
    /\ currentBlocks[2].name = "edited"


\* C12: a hover of a drag of recorded index dragIndex over the item at
\* position index takes no action when dragIndex = index, when
\* dragIndex < index with the pointer above the midpoint, or when
\* dragIndex > index with the pointer below it; in every other case it makes
\* the one move moveBlock(dragIndex, index) and records index
C12_HoverDecision ==
    [][ \A index \in 0..(Len(currentBlocks) - 1), y \in 0..ItemHeight :
            hover(index, y) =>
                LET dragIndex == Get(item).index
                    noAction ==
                        \/ dragIndex = index
                        \/ dragIndex < index /\ 2 * y < ItemHeight
                        \/ dragIndex > index /\ 2 * y > ItemHeight
                IN  IF noAction
                    THEN /\ currentBlocks' = currentBlocks
                         /\ item' = item
                    ELSE /\ currentBlocks' =
                                Move(currentBlocks, dragIndex, index)
                         /\ item' = Some([index |-> index]) ]_vars

\* a hover exactly at the midpoint of the last of three items has moved the
\* first block there
C12_Witness ==
    /\ item = Some([index |-> 2])
    /\ dragged = Some(1)
    /\ hoverRun # None
    /\ 2 * Get(hoverRun).y = ItemHeight
    /\ Get(hoverRun).moves = 1
    /\ Len(currentBlocks) = 3
    /\ currentBlocks[3].id = 1


\* list q without its element at position index (from 0)
Without(q, index) ==
    [i \in 1..(Len(q) - 1) |-> IF i <= index THEN q[i] ELSE q[i + 1]]

\* C13: moveBlock(fromIndex, toIndex) with both indices in [0, N) leaves the
\* N - 1 blocks other than the moved one in the order they had, and
\* moveBlock(i, i) yields the list it was given
C13_MoveKeepsOrder ==
    (call.fn = "moveBlock" /\ call.step = 1) =>
        /\ Without(currentBlocks, call.toIndex) =
               Without(call.before, call.fromIndex)
        /\ call.fromIndex = call.toIndex => currentBlocks = call.before

\* a block of three distinct tokens has been moved from the end to the front
C13_Witness ==
    /\ call.fn = "moveBlock" /\ call.step = 1
    /\ Len(call.before) = 3
    /\ Cardinality(Tokens(call.before)) = 3
    /\ call.fromIndex = 2 /\ call.toIndex = 0


\* C14: selecting a type from the menu leaves the displayed list followed by
\* one new block of that type: one longer, the earlier blocks where they
\* were, the new token different from every token the list held
C14_AddAppendsFresh ==
    [][ \A type \in BlockTypes :
            addBlock(type) =>
                LET n == Len(currentBlocks)
                IN  /\ Len(currentBlocks') = n + 1
                    /\ SubSeq(currentBlocks', 1, n) = currentBlocks
                    /\ currentBlocks'[n + 1].type = type
                    /\ currentBlocks'[n + 1].id \notin Tokens(currentBlocks)
      ]_vars

\* a plate-sequencer block has been added after the block of the cached
\* record
C14_Witness ==
    /\ protocol # None
    /\ Len(Get(protocol).blocks) = 1
    /\ Len(currentBlocks) = 2
    /\ currentBlocks[1] = Get(protocol).blocks[1]
    /\ currentBlocks[2].type = "plate-sequencer"


\* a step of one of the edit handlers: title, description, menu, block
\* editor, drag begin, hover, release
EditStep ==
    \/ \E v \in NameEdits : setName(v)
    \/ \E d \in DescriptionEdits \cup {currentDescription} : setDescription(d)
    \/ \E type \in BlockTypes : addBlock(type)
    \/ \E updated \in UpdateArguments : updateBlock(Some(updated))
    \/ updateBlock(None)
    \/ \E index \in 0..(Len(currentBlocks) - 1) : beginDrag(index)
    \/ \E index \in 0..(Len(currentBlocks) - 1), y \in 0..ItemHeight :
           hover(index, y)
    \/ endDrag

\* C15: an edit step (name, description, append, update, hover, release)
\* leaves the record cache, the saving flag and the last-saved time as they
\* are and starts no upsert; the cache changes only in the step that
\* finishes a save whose upsert resolved
C15_EditsTouchOnlyOverlay ==
    [][ /\ EditStep =>
               UNCHANGED << routeId, protocolCache, formSaving, formSavedTime,
                            upserts, saveLog >>
        /\ protocolCache' # protocolCache =>
               /\ Len(saveLog') = Len(saveLog) + 1
               /\ Last(saveLog').response # None ]_vars

\* with a save in flight that was clicked before any edit, the name has been
\* edited, a block added and a drag begun
C15_Witness ==
    /\ \E u \in upserts : u.edits = << None, None, None >>
    /\ formSaving
    /\ formSavedTime = None
    /\ name # None
    /\ blocks # None
    /\ item # None


\* a step of a handler that edits the block list
BlocksEditStep ==
    \/ \E type \in BlockTypes : addBlock(type)
    \/ \E updated \in UpdateArguments : updateBlock(Some(updated))
    \/ \E index \in 0..(Len(currentBlocks) - 1), y \in 0..ItemHeight :
           hover(index, y)

\* C16: the three overlay fields are null at mount; a field changes only in
\* a step of its own editor, which leaves the other two fields as they are;
\* a field that is non-null is non-null after every step, the steps that
\* finish a save included
C16_OverlayLifecycle ==
    /\ name = None /\ description = None /\ blocks = None
    /\ [][ /\ name' # name =>
                  /\ \E v \in NameEdits : setName(v)
                  /\ UNCHANGED << description, blocks >>
           /\ description' # description =>
                  /\ \E d \in DescriptionEdits \cup {currentDescription} :
                         setDescription(d)
                  /\ UNCHANGED << name, blocks >>
           /\ blocks' # blocks =>
                  /\ BlocksEditStep
                  /\ UNCHANGED << name, description >>
           /\ name # None => name' # None
           /\ description # None => description' # None
           /\ blocks # None => blocks' # None ]_vars

\* a save of an edited name and description has written the cache and a
\* later one has failed, and both fields are still set
C16_Witness ==
    /\ Len(saveLog) = 2
    /\ saveLog[1].outcome = "written"
    /\ saveLog[1].response = Some([Get(saveLog[1].response) EXCEPT !.name = "B"])
    /\ FailedSave(saveLog[2])
    /\ name = Some("B")
    /\ description # None


\* C17: an edit of a field made while a save was in flight is what the page
\* displays for that field after the step that finishes the save and writes
\* the cache
C17_InFlightEditKept ==
    [][ \A u \in upserts :
            (/\ u \notin upserts'
             /\ Len(saveLog') = Len(saveLog) + 1
             /\ Last(saveLog').outcome = "written") =>
                /\ name # u.edits[1] => currentName' = Get(name)
                /\ description # u.edits[2] =>
                       currentDescription' = Get(description)
                /\ blocks # u.edits[3] => currentBlocks' = Get(blocks) ]_vars


\* the position (from 0) of the block of token t in bs
PositionOf(bs, t) == CHOOSE i \in 0..(Len(bs) - 1) : bs[i + 1].id = t

\* C18: while a drag is under way the recorded index is the position in the
\* displayed list of the block the drag began on, and a hover event that
\* changes the displayed list leaves the blocks other than that one in the
\* order they had
C18_DragTracksBlock ==
    /\ [](item # None =>
            /\ dragged # None
            /\ Get(item).index < Len(currentBlocks)
            /\ currentBlocks[Get(item).index + 1].id = Get(dragged))
    /\ [][ \A index \in 0..(Len(currentBlocks) - 1), y \in 0..ItemHeight :
              (hover(index, y) /\ currentBlocks' # currentBlocks) =>
                  /\ Get(item').index = index
                  /\ currentBlocks'[index + 1] =
                         currentBlocks[PositionOf(currentBlocks, Get(dragged)) + 1]
                  /\ Without(currentBlocks',
                             PositionOf(currentBlocks', Get(dragged))) =
                     Without(currentBlocks,
                             PositionOf(currentBlocks, Get(dragged))) ]_vars

\* the drag that began on the first of three blocks has brought it to the
\* end, over the third block
C18_Witness ==
    /\ item # None
    /\ dragged = Some(1)
    /\ Len(currentBlocks) = 3
    /\ Get(item).index = 2
    /\ currentBlocks[3].id = 1
    /\ hoverRun # None
    /\ Get(hoverRun).token = 3


\* C19: from a cached list of pairwise-distinct tokens, after any appends,
\* updates and moves no token occurs twice in the displayed list, and the
\* set of tokens present changes only in a step that appends a block
C19_TokensStayDistinct ==
    /\ [](\A t \in Tokens(currentBlocks) : TokenCount(currentBlocks, t) = 1)
    /\ [][ Tokens(currentBlocks') # Tokens(currentBlocks) =>
               \E type \in BlockTypes : addBlock(type) ]_vars

\* an appended block and an updated block are displayed and a hover has
\* moved the dragged block
C19_Witness ==
    /\ \E i \in DOMAIN currentBlocks : currentBlocks[i].id > MaxMoveLen
    /\ \E i \in DOMAIN currentBlocks : currentBlocks[i].name = "edited"
    /\ hoverRun # None
    /\ Get(hoverRun).moves > 0


\* C20: a click on Save while the three overlay fields are null and the
\* route's record is cached starts an upsert of a record whose name,
\* description string and block list are those of the cached record, the
\* cached description being any string and being the string that
\* deserializeSlate then serializeSlate make of it
C20_UneditedSaveSubmitsCached ==
    [][ (/\ saveClick
         /\ name = None /\ description = None /\ blocks = None
         /\ protocol # None) =>
            /\ \A u \in upserts' \ upserts :
                   /\ u.protocol.name = Get(protocol).name
                   /\ u.protocol.description = Get(protocol).description
                   /\ u.protocol.blocks = Get(protocol).blocks
            /\ serializeSlate(deserializeSlate(Get(protocol).description)) =
                   Get(protocol).description ]_vars

\* an unedited save has submitted a description that begins and ends with
\* an empty line
C20_Witness ==
    \E u \in upserts :
        /\ u.edits = << None, None, None >>
        /\ u.protocol.description = << NL, "a", NL >>
        /\ u.protocol.blocks # << >>
        /\ protocol # None
        /\ u.protocol.name = Get(protocol).name

=============================================================================
